---- MODULE Spec2Model ----
(***************************************************************************)
(* A model of urbanairship.py: the Airship client (one HTTP request per    *)
(* operation, status codes mapped to return values and exceptions) and     *)
(* the paginated AirshipDeviceList iterator.                               *)
(*                                                                         *)
(* Python values are modelled as follows.  An optional argument is a       *)
(* sequence of length 0 (None) or 1 (the value).  A dict is a function     *)
(* over its keys.  A JSON text is the pair <<"json", value>>, so that      *)
(* json.dumps and json.loads are not the identity.  The outcome of a call  *)
(* is a record: a returned value or a raised exception with its args.      *)
(* The HTTP server is the environment: for each call it holds a (status,    *)
(* body), drawn from small sets, with which it answers the request if one  *)
(* reaches it.                                                             *)
(***************************************************************************)
EXTENDS Integers, Sequences, FiniteSets, TLC

\* TLC orders the fields of a record by the first occurrence of their names in
\* the module.  They are introduced here in alphabetical order, and every
\* record below lists its fields in that order, so that each is built sorted.
Fields ==
    [alert |-> {}, alias |-> {}, aliases |-> {}, apids |-> {},
     apids_count |-> {}, args |-> {}, attempted |-> {}, badge |-> {},
     body |-> {}, count |-> {}, device_token |-> {}, device_tokens |-> {},
     device_tokens_count |-> {}, error |-> {}, exc |-> {}, exclude_tokens |-> {},
     extra |-> {}, has_dateutil |-> {}, headers |-> {}, kind |-> {},
     len |-> {}, list |-> {}, loaded |-> {}, marked_inactive_on |-> {},
     method |-> {}, next_page |-> {}, operation |-> {}, page |-> {},
     payload |-> {}, payloads |-> {}, platform |-> {}, pos |-> {},
     result |-> {}, sent |-> {}, since |-> {}, sound |-> {},
     status |-> {}, tags |-> {}, token |-> {}, token_iter |-> {},
     tokens |-> {}, url |-> {}, value |-> {}]

VARIABLES
    call,            \* the client operation last invoked and its arguments
    server,          \* the (status, body) the server has for that call's request
    sent,            \* the HTTP requests the call issued, in order
    result,          \* what the call returned or raised
    self_airship,    \* AirshipDeviceList._airship: which dispatcher it holds
    self_platform,   \* AirshipDeviceList.platform
    self_page,       \* AirshipDeviceList._page: the loaded page document, None = unset
    self_token_iter, \* AirshipDeviceList._token_iter: its list and the items taken
    pages,           \* the server's chain of device pages
    yielded,         \* the identifiers next() has returned so far
    loads,           \* the statuses the server had for the page loads attempted so far
    served,          \* index of the page the server last served with status 200, 0 = none
    last             \* the last iterator call: what it sent and returned or raised

vars == <<call, server, sent, result, self_airship, self_platform, self_page,
          self_token_iter, pages, yielded, loads, served, last>>

clientVars == <<call, server, sent, result>>
listVars == <<self_airship, self_platform, self_page, self_token_iter, pages,
              yielded, loads, served, last>>

----------------------------------------------------------------------------
(* Module-level constants, lines 11-22, with BASE_URL spelled out *)

DEVICE_TOKEN_URL == "https://go.urbanairship.com/api/device_tokens/"
APID_URL == "https://go.urbanairship.com/api/apids/"
PUSH_URL == "https://go.urbanairship.com/api/push/"
BATCH_PUSH_URL == "https://go.urbanairship.com/api/push/batch/"
BROADCAST_URL == "https://go.urbanairship.com/api/push/broadcast/"
FEEDBACK_URL == "https://go.urbanairship.com/api/device_tokens/feedback/"

IOS == "ios"
ANDROID == "android"

\* A platform value that is neither IOS nor ANDROID.
WINDOWS == "windows"
Platforms == {IOS, ANDROID, WINDOWS}
Recognized == {IOS, ANDROID}

----------------------------------------------------------------------------
(* Python values *)

None == <<>>
Some(v) == <<v>>

\* `if x:` for an optional string, integer or list argument
TruthyStr(x) == x # None /\ x[1] # ""
TruthyInt(x) == x # None /\ x[1] # 0
TruthySeq(x) == x # None /\ Len(x[1]) > 0

\* d[k] = v on a dict
Put(d, k, v) == [x \in DOMAIN d \cup {k} |-> IF x = k THEN v ELSE d[x]]
EmptyDict == [k \in {} |-> None]

json_dumps(v) == <<"json", v>>
json_loads(text) == text[2]

Return(v) == [kind |-> "return", value |-> v]
Raise(e, a) == [args |-> a, exc |-> e, kind |-> "raise"]

Raised(r, e) == r.kind = "raise" /\ r.exc = e

----------------------------------------------------------------------------
(* Airship._request, lines 101-113 *)

Str(s) == <<"str", s>>

\* lines 109-113: the response is read; a 401 raises Unauthorized(body)
Receive(status, response) ==
    IF status = 401
    THEN Raise("Unauthorized", <<response>>)
    ELSE Return(<<status, response>>)

\* lines 103-107: the headers of a request
Headers(content_type) ==
    IF content_type # None
    THEN Put(Put(EmptyDict, "authorization", "Basic"), "content-type",
             content_type[1])
    ELSE Put(EmptyDict, "authorization", "Basic")

\* body.encode('utf8') on line 108 is evaluated before h.request is called:
\* with body None it raises AttributeError and nothing is sent.  The text
\* bodies of the model are ASCII, which encode('utf8') accepts.
_request(method, body, url, content_type, status, response) ==
    IF body = None
    THEN [result |-> Raise("AttributeError", <<>>), sent |-> <<>>]
    ELSE [result |-> Receive(status, response),
          sent |-> <<[body |-> <<"utf8", body>>,
                      headers |-> Headers(content_type),
                      method |-> method, url |-> url]>>]

\* `raise AirshipFailure(status, response)`
AirshipFailure(status, response) == Raise("AirshipFailure", <<status, response>>)

UnrecognizedMobilePlatformException(platform) ==
    Raise("UnrecognizedMobilePlatformException", <<platform>>)

----------------------------------------------------------------------------
(* Airship.register, lines 115-138 *)

\* lines 121-127
register_payload(alias, tags, badge) ==
    LET p1 == IF alias # None THEN Put(EmptyDict, "alias", alias[1]) ELSE EmptyDict
        p2 == IF tags # None THEN Put(p1, "tags", tags[1]) ELSE p1
    IN  IF badge # None THEN Put(p2, "badge", badge[1]) ELSE p2

\* register with 204 among the accepted statuses and 200 reported as created
register_created_on_200(token, alias, tags, badge, platform, status, response) ==
    IF platform \notin Recognized
    THEN [result |-> Raise("UnboundLocalError", <<"url">>), sent |-> <<>>]
    ELSE
    LET url == <<IF platform = IOS THEN DEVICE_TOKEN_URL ELSE APID_URL, token>>
        payload == register_payload(alias, tags, badge)
        body == IF DOMAIN payload # {} THEN json_dumps(payload) ELSE Str("")
        content_type == IF DOMAIN payload # {} THEN Some("application/json") ELSE None
        r == _request("PUT", body, url, content_type, status, response)
    IN  IF r.result.kind = "raise" THEN r
        ELSE IF r.result.value[1] \notin {200, 201, 204}
        THEN [r EXCEPT !.result = AirshipFailure(r.result.value[1], r.result.value[2])]
        ELSE [r EXCEPT !.result = Return(r.result.value[1] = 200)]

\* With a platform that is neither IOS nor ANDROID no branch binds `url`,
\* and line 135 raises UnboundLocalError while evaluating its arguments.
register(token, alias, tags, badge, platform, status, response) ==
    IF platform \notin Recognized
    THEN [result |-> Raise("UnboundLocalError", <<"url">>), sent |-> <<>>]
    ELSE
    LET url == <<IF platform = IOS THEN DEVICE_TOKEN_URL ELSE APID_URL, token>>
        payload == register_payload(alias, tags, badge)
        body == IF DOMAIN payload # {} THEN json_dumps(payload) ELSE Str("")
        content_type == IF DOMAIN payload # {} THEN Some("application/json") ELSE None
        r == _request("PUT", body, url, content_type, status, response)
    IN  IF r.result.kind = "raise" THEN r
        ELSE IF r.result.value[1] \notin {200, 201}
        THEN [r EXCEPT !.result = AirshipFailure(r.result.value[1], r.result.value[2])]
        ELSE [r EXCEPT !.result = Return(r.result.value[1] = 201)]

----------------------------------------------------------------------------
(* Airship.deregister, lines 140-150 *)

deregister(token, platform, status, response) ==
    IF platform \notin Recognized
    THEN [result |-> UnrecognizedMobilePlatformException(platform), sent |-> <<>>]
    ELSE
    LET url == <<IF platform = IOS THEN DEVICE_TOKEN_URL ELSE APID_URL, token>>
        r == _request("DELETE", Str(""), url, None, status, response)
    IN  IF r.result.kind = "raise" THEN r
        ELSE IF r.result.value[1] # 204
        THEN [r EXCEPT !.result = AirshipFailure(r.result.value[1], r.result.value[2])]
        ELSE [r EXCEPT !.result = Return(None)]

----------------------------------------------------------------------------
(* Airship.get_device_token_info, lines 152-160 *)

get_device_token_info(device_token, status, response) ==
    LET url == <<DEVICE_TOKEN_URL, device_token>>
        r == _request("GET", None, url, None, status, response)
    IN  IF r.result.kind = "raise" THEN r
        ELSE IF r.result.value[1] = 404
        THEN [r EXCEPT !.result = Return(None)]
        ELSE IF r.result.value[1] # 200
        THEN [r EXCEPT !.result = AirshipFailure(r.result.value[1], r.result.value[2])]
        ELSE [r EXCEPT !.result = Return(json_loads(r.result.value[2]))]

----------------------------------------------------------------------------
(* Airship.get_device_tokens, lines 162-163 *)

\* `platorm` on line 163 is not a name in any scope: NameError, whatever the
\* platform, before AirshipDeviceList is constructed.
get_device_tokens(platform) ==
    [result |-> Raise("NameError", <<"platorm">>), sent |-> <<>>]

----------------------------------------------------------------------------
(* Airship.build_push_payload, lines 165-200 *)

\* lines 166-170: the platform's container, none for another platform
payload_container(platform) ==
    IF platform = ANDROID THEN Put(EmptyDict, "android", EmptyDict)
    ELSE IF platform = IOS THEN Put(EmptyDict, "aps", EmptyDict)
    ELSE EmptyDict

\* payload[c][k] = v
PutIn(payload, c, k, v) == Put(payload, c, Put(payload[c], k, v))

\* lines 171-199 without the raises: each `if x:` tests truthiness, so an
\* empty list, an empty string, an empty dict and the integer 0 are skipped.
payload_fields(alert, extra, tokens, aliases, tags, platform, badge, sound) ==
    LET p0 == payload_container(platform)
        p1 == IF TruthySeq(tokens) /\ platform = IOS
              THEN Put(p0, "device_tokens", tokens[1])
              ELSE IF TruthySeq(tokens) /\ platform = ANDROID
              THEN Put(p0, "apids", tokens[1])
              ELSE p0
        p2 == IF TruthySeq(aliases) THEN Put(p1, "aliases", aliases[1]) ELSE p1
        p3 == IF TruthySeq(tags) THEN Put(p2, "tags", tags[1]) ELSE p2
        p4 == IF TruthyStr(alert) /\ platform = ANDROID
              THEN PutIn(p3, "android", "alert", alert[1])
              ELSE IF TruthyStr(alert) /\ platform = IOS
              THEN PutIn(p3, "aps", "alert", alert[1])
              ELSE p3
        p5 == IF TruthyStr(sound) /\ platform = IOS
              THEN PutIn(p4, "aps", "sound", sound[1])
              ELSE p4
        p6 == IF TruthyInt(badge) /\ platform = IOS
              THEN PutIn(p5, "aps", "badge", badge[1])
              ELSE p5
    IN  IF TruthySeq(extra) /\ platform = IOS
        THEN Put(p6, "d", extra[1])
        ELSE IF TruthySeq(extra) /\ platform = ANDROID
        THEN PutIn(p6, "android", "extra", extra[1])
        ELSE p6

\* The only raises are on lines 177 and 199: under `if tokens:` and `if extra:`.
build_push_payload(alert, extra, tokens, aliases, tags, platform, badge, sound) ==
    IF platform \notin Recognized /\ (TruthySeq(tokens) \/ TruthySeq(extra))
    THEN UnrecognizedMobilePlatformException(platform)
    ELSE Return(payload_fields(alert, extra, tokens, aliases, tags, platform,
                               badge, sound))

----------------------------------------------------------------------------
(* Airship.push, push_batch, broadcast: lines 202-225 *)

\* lines 205-209, 212-215, 221-225: POST the JSON text, success is status 200
post_json(value, url, status, response) ==
    LET r == _request("POST", json_dumps(value), url, Some("application/json"),
                      status, response)
    IN  IF r.result.kind = "raise" THEN r
        ELSE IF r.result.value[1] # 200
        THEN [r EXCEPT !.result = AirshipFailure(r.result.value[1], r.result.value[2])]
        ELSE [r EXCEPT !.result = Return(None)]

push(alert, extra, tokens, aliases, tags, platform, badge, sound, status, response) ==
    LET b == build_push_payload(alert, extra, tokens, aliases, tags, platform,
                                badge, sound)
    IN  IF b.kind = "raise"
        THEN [result |-> b, sent |-> <<>>]
        ELSE post_json(b.value, PUSH_URL, status, response)

push_batch(payloads, status, response) ==
    post_json(payloads, BATCH_PUSH_URL, status, response)

broadcast(payload, exclude_tokens, status, response) ==
    LET p == IF TruthySeq(exclude_tokens)
             THEN Put(payload, "exclude_tokens", exclude_tokens[1])
             ELSE payload
    IN  post_json(p, BROADCAST_URL, status, response)

----------------------------------------------------------------------------
(* Airship.feedback, lines 227-254 *)

\* lines 247-251: dateutil's parser when it can be imported, else the identity
parse(has_dateutil, x) == IF has_dateutil THEN <<"datetime", x>> ELSE x

feedback(since, has_dateutil, status, response) ==
    LET url == <<FEEDBACK_URL, "?since=", since>>
        r == _request("GET", Str(""), url, None, status, response)
    IN  IF r.result.kind = "raise" THEN r
        ELSE IF r.result.value[1] # 200
        THEN [r EXCEPT !.result = AirshipFailure(r.result.value[1], r.result.value[2])]
        ELSE LET data == json_loads(r.result.value[2])
             IN  [r EXCEPT !.result = Return(
                    [i \in 1..Len(data) |->
                        <<data[i].device_token,
                          parse(has_dateutil, data[i].marked_inactive_on),
                          data[i].alias>>])]

----------------------------------------------------------------------------
(* The inputs the client's operations are called with *)

Tokens == {"t1", "t2"}
Statuses == {200, 201, 204, 401, 404, 500}
Bodies == {json_dumps([alias |-> "a"]), json_dumps([alias |-> "b"])}
FeedbackBodies ==
    {json_dumps(<<>>),
     json_dumps(<<[alias |-> "a", device_token |-> "t1", marked_inactive_on |-> "2011-01-01"],
                  [alias |-> "b", device_token |-> "t2", marked_inactive_on |-> "2011-01-02"]>>)}

OptStr == {None, Some(""), Some("hi")}
OptList == {None, Some(<<>>), Some(<<"x">>)}
OptBadge == {None, Some(0), Some(3)}
OptName == {None, Some("a")}
Payloads == {Put(EmptyDict, "aps", Put(EmptyDict, "alert", "hi")),
             Put(EmptyDict, "android", Put(EmptyDict, "alert", "hi"))}

ClientInit ==
    /\ call = [operation |-> "none"]
    /\ server = [body |-> None, status |-> 0]
    /\ sent = <<>>
    /\ result = Return(None)

\* One call of a client operation: its arguments, the server's answer, and
\* what the operation sent and returned or raised.
Called(c, status, response, r) ==
    /\ call' = c
    /\ server' = [body |-> response, status |-> status]
    /\ sent' = r.sent
    /\ result' = r.result
    /\ UNCHANGED listVars

\* The client is between calls.
Idle == call.operation = "none"

Register ==
    /\ Idle
    /\ \E token \in Tokens, alias \in OptName, tags \in OptList, badge \in OptBadge,
          platform \in Platforms, status \in Statuses, response \in Bodies :
           Called([alias |-> alias, badge |-> badge, operation |-> "register",
                   platform |-> platform, tags |-> tags, token |-> token],
                  status, response,
                  register(token, alias, tags, badge, platform, status, response))

Deregister ==
    /\ Idle
    /\ \E token \in Tokens, platform \in Platforms, status \in Statuses,
          response \in Bodies :
           Called([operation |-> "deregister", platform |-> platform, token |-> token],
                  status, response, deregister(token, platform, status, response))

GetDeviceTokenInfo ==
    /\ Idle
    /\ \E device_token \in Tokens, status \in Statuses, response \in Bodies :
           Called([operation |-> "get_device_token_info",
                   token |-> device_token],
                  status, response,
                  get_device_token_info(device_token, status, response))

GetDeviceTokens ==
    /\ Idle
    /\ \E platform \in Platforms, status \in Statuses, response \in Bodies :
           Called([operation |-> "get_device_tokens", platform |-> platform],
                  status, response, get_device_tokens(platform))

Push ==
    /\ Idle
    /\ \E alert \in OptStr, extra \in OptList, tokens \in OptList, aliases \in OptList,
          tags \in OptList, platform \in Platforms, badge \in OptBadge,
          sound \in {None, Some("default")}, status \in Statuses, response \in Bodies :
           Called([alert |-> alert, aliases |-> aliases, badge |-> badge,
                   extra |-> extra, operation |-> "push", platform |-> platform,
                   sound |-> sound, tags |-> tags, tokens |-> tokens],
                  status, response,
                  push(alert, extra, tokens, aliases, tags, platform, badge, sound,
                       status, response))

PushBatch ==
    /\ Idle
    /\ \E payloads \in {<<>>} \cup {<<p>> : p \in Payloads}, status \in Statuses,
          response \in Bodies :
           Called([operation |-> "push_batch", payloads |-> payloads],
                  status, response, push_batch(payloads, status, response))

Broadcast ==
    /\ Idle
    /\ \E payload \in Payloads, exclude_tokens \in OptList, status \in Statuses,
          response \in Bodies :
           Called([exclude_tokens |-> exclude_tokens, operation |-> "broadcast",
                   payload |-> payload],
                  status, response,
                  broadcast(payload, exclude_tokens, status, response))

Feedback ==
    /\ Idle
    /\ \E since \in {"2011-01-01T00:00:00"}, has_dateutil \in BOOLEAN,
          status \in Statuses, response \in FeedbackBodies :
           Called([has_dateutil |-> has_dateutil, operation |-> "feedback",
                   since |-> since],
                  status, response, feedback(since, has_dateutil, status, response))

\* The caller has the outcome; the client, which keeps nothing of a call, is
\* idle again.
Done ==
    /\ ~Idle
    /\ call' = [operation |-> "none"]
    /\ server' = [body |-> None, status |-> 0]
    /\ sent' = <<>>
    /\ result' = Return(None)
    /\ UNCHANGED listVars

ClientNext ==
    \/ Done
    \/ Register
    \/ Deregister
    \/ GetDeviceTokenInfo
    \/ GetDeviceTokens
    \/ Push
    \/ PushBatch
    \/ Broadcast
    \/ Feedback

----------------------------------------------------------------------------
(* The server's device pages *)

MaxPages == 3
MaxPageLen == 2

\* The count field a page reports is the server's, not the length of the page.
Counts == {10, 11}

\* The j-th identifier of page i
Id(i, j) == <<i, j>>

PageChains ==
    UNION {[1..n -> [count : Counts, len : 0..MaxPageLen]] : n \in 1..MaxPages}

\* A page URL: the platform's list URL, or the next_page link to page i
PageUrl(base, i) == IF i = 1 THEN <<base>> ELSE <<base, "?page=", i>>
UrlIndex(url) == IF Len(url) = 1 THEN 1 ELSE url[3]

\* Every page but the last carries a next_page link; the last has null.
NextLink(base, i) == IF i < Len(pages) THEN Some(PageUrl(base, i + 1)) ELSE None

PageIds(i) == [j \in 1..pages[i].len |-> Id(i, j)]

\* The JSON document of page i, in the platform's wire format
PageDoc(platform, i) ==
    IF platform = IOS
    THEN [device_tokens |-> PageIds(i),
          device_tokens_count |-> pages[i].count,
          next_page |-> NextLink(DEVICE_TOKEN_URL, i)]
    ELSE [apids |-> PageIds(i),
          apids_count |-> pages[i].count,
          next_page |-> NextLink(APID_URL, i)]

ErrorBody == json_dumps([error |-> "failed"])

\* The body the server answers a GET of a page URL with
ServerBody(platform, url, status) ==
    IF status = 200 THEN json_dumps(PageDoc(platform, UrlIndex(url))) ELSE ErrorBody

ListStatuses == {200, 401, 500}

----------------------------------------------------------------------------
(* AirshipDeviceList, lines 39-90 *)

\* The `airship` argument of AirshipDeviceList: an instance of Airship, or
\* any other object whose _request sends the body-less GET and reads the
\* response as lines 109-113 do.
Dispatchers == {"Airship", "stub"}

\* self._airship._request('GET', None, url) on line 81
dispatch(airship, url, status, response) ==
    IF airship = "Airship"
    THEN _request("GET", None, url, None, status, response)
    ELSE [result |-> Receive(status, response),
          sent |-> <<[body |-> None, headers |-> Headers(None),
                      method |-> "GET", url |-> url]>>]

\* iter(list) and its next(): a list and the number of items taken from it
iter(list) == [list |-> list, pos |-> 0]
has_next(it) == it.pos < Len(it.list)
take(it) == [it EXCEPT !.pos = it.pos + 1]
item(it) == it.list[it.pos + 1]

\* lines 80-90.  self._page and self._token_iter are assigned only after a
\* 200; __init__ admits no platform but IOS and ANDROID.
_load_page(airship, platform, url, status) ==
    LET r == dispatch(airship, url, status, ServerBody(platform, url, status))
    IN  IF r.result.kind = "raise"
        THEN [loaded |-> FALSE, result |-> r.result, sent |-> r.sent]
        ELSE IF r.result.value[1] # 200
        THEN [loaded |-> FALSE,
              result |-> AirshipFailure(r.result.value[1], r.result.value[2]),
              sent |-> r.sent]
        ELSE LET page == json_loads(r.result.value[2])
             IN  [loaded |-> TRUE, page |-> page, result |-> Return(None),
                  sent |-> r.sent,
                  token_iter |-> iter(IF platform = IOS THEN page.device_tokens
                                      ELSE page.apids)]

\* lines 74-78
_fetch_next_page(airship, platform, page, status) ==
    LET next_page == page.next_page
    IN  IF next_page = None
        THEN [loaded |-> FALSE, result |-> Return(None), sent |-> <<>>]
        ELSE _load_page(airship, platform, next_page[1], status)

\* lines 59-64: what next() returns or raises, and the object's fields after it
next(airship, platform, page, token_iter, status) ==
    IF has_next(token_iter)
    THEN [page |-> page, result |-> Return(item(token_iter)), sent |-> <<>>,
          token_iter |-> take(token_iter)]
    ELSE
    LET f == _fetch_next_page(airship, platform, page, status)
        pg == IF f.loaded THEN f.page ELSE page
        it == IF f.loaded THEN f.token_iter ELSE token_iter
    IN  IF f.result.kind = "raise"
        THEN [page |-> pg, result |-> f.result, sent |-> f.sent, token_iter |-> it]
        ELSE IF has_next(it)
        THEN [page |-> pg, result |-> Return(item(it)), sent |-> f.sent,
              token_iter |-> take(it)]
        ELSE [page |-> pg, result |-> Raise("StopIteration", <<>>),
              sent |-> f.sent, token_iter |-> it]

\* __len__ as the number of identifiers on the loaded page
len_of_page(platform, page) ==
    IF platform = IOS THEN Return(Len(page.device_tokens))
    ELSE IF platform = ANDROID THEN Return(Len(page.apids))
    ELSE Raise("NameError", <<"platform">>)

\* lines 66-72; `platform` on line 72 is not a name in scope
__len__(platform, page) ==
    IF platform = IOS THEN Return(page.device_tokens_count)
    ELSE IF platform = ANDROID THEN Return(page.apids_count)
    ELSE Raise("NameError", <<"platform">>)

\* lines 46-54
__init__(airship, platform, status) ==
    IF platform = IOS THEN _load_page(airship, platform, <<DEVICE_TOKEN_URL>>, status)
    ELSE IF platform = ANDROID THEN _load_page(airship, platform, <<APID_URL>>, status)
    ELSE [loaded |-> FALSE,
          result |-> UnrecognizedMobilePlatformException(platform),
          sent |-> <<>>]

----------------------------------------------------------------------------
(* The device list's actions *)

ListInit ==
    /\ self_airship \in Dispatchers
    /\ self_platform \in Platforms
    /\ pages \in PageChains
    /\ self_page = None
    /\ self_token_iter = iter(<<>>)
    /\ yielded = <<>>
    /\ loads = {}
    /\ served = 0
    /\ last = [operation |-> "none"]

\* The server serves a page when a request reaches it and it answers 200.
Serve(r, status) ==
    IF r.sent # <<>> /\ status = 200 THEN UrlIndex(r.sent[1].url) ELSE served

\* AirshipDeviceList(airship, platform)
Construct ==
    /\ last.operation = "none"
    /\ \E status \in ListStatuses :
        LET r == __init__(self_airship, self_platform, status)
            attempted == self_platform \in Recognized
        IN  /\ self_page' = IF r.loaded THEN Some(r.page) ELSE None
            /\ self_token_iter' = IF r.loaded THEN r.token_iter ELSE self_token_iter
            /\ loads' = IF attempted THEN loads \cup {status} ELSE loads
            /\ served' = Serve(r, status)
            /\ last' = [attempted |-> attempted, operation |-> "init", result |-> r.result,
                        sent |-> Len(r.sent), status |-> status]
    /\ UNCHANGED <<self_airship, self_platform, pages, yielded>>
    /\ UNCHANGED clientVars

\* next() on a constructed list
CallNext ==
    /\ self_page # None
    /\ \E status \in ListStatuses :
        LET r == next(self_airship, self_platform, self_page[1], self_token_iter,
                      status)
            attempted == ~has_next(self_token_iter) /\ self_page[1].next_page # None
        IN  /\ self_page' = Some(r.page)
            /\ self_token_iter' = r.token_iter
            /\ yielded' = IF r.result.kind = "return"
                          THEN Append(yielded, r.result.value) ELSE yielded
            /\ loads' = IF attempted THEN loads \cup {status} ELSE loads
            /\ served' = Serve(r, status)
            /\ last' = [attempted |-> attempted, operation |-> "next", result |-> r.result,
                        sent |-> Len(r.sent), status |-> status]
    /\ UNCHANGED <<self_airship, self_platform, pages>>
    /\ UNCHANGED clientVars

----------------------------------------------------------------------------
(* Specifications *)

\* The client: any sequence of calls of Airship's methods.
Init ==
    /\ ClientInit
    /\ self_airship = "Airship"
    /\ self_platform = IOS
    /\ pages = <<>>
    /\ self_page = None
    /\ self_token_iter = iter(<<>>)
    /\ yielded = <<>>
    /\ loads = {}
    /\ served = 0
    /\ last = [operation |-> "none"]

Next == ClientNext

Spec == Init /\ [][Next]_vars

\* The device list: construction, then any number of next() calls.
InitList == ClientInit /\ ListInit

NextList ==
    \/ Construct
    \/ CallNext

SpecList == InitList /\ [][NextList]_vars

----------------------------------------------------------------------------
(* Properties of the client, under Spec *)

\* The operations that take a platform argument
PlatformOps == {"register", "deregister", "get_device_tokens", "push"}

\* A call has been made, with a recognized platform where it takes one
ValidCall ==
    /\ ~Idle
    /\ call.operation \notin PlatformOps \/ call.platform \in Recognized

\* C1: whenever the server's answer to an operation has status 401, the
\* operation raises Unauthorized carrying the response body.
C1_UnauthorizedOn401 ==
    (ValidCall /\ server.status = 401) =>
        (Raised(result, "Unauthorized") /\ result.args = <<server.body>>)

\* C2: with a platform outside {ios, android}, every platform-taking operation
\* raises UnrecognizedMobilePlatformException and issues no HTTP request.
C2_UnrecognizedPlatformRejected ==
    (call.operation \in PlatformOps /\ call.platform \notin Recognized) =>
        (Raised(result, "UnrecognizedMobilePlatformException") /\ sent = <<>>)

\* C7: for a recognized platform and a response status s other than 401,
\* register returns true iff s = 201, false iff s = 200, and raises
\* AirshipFailure(s, body) for every other s.
C7_RegisterStatus ==
    (call.operation = "register" /\ call.platform \in Recognized
        /\ server.status # 401) =>
        /\ server.status = 201 <=> (result.kind = "return" /\ result.value = TRUE)
        /\ server.status = 200 <=> (result.kind = "return" /\ result.value = FALSE)
        /\ server.status \notin {200, 201} =>
            /\ Raised(result, "AirshipFailure")
            /\ result.args = <<server.status, server.body>>

C7_Witness ==
    /\ call.operation = "register"
    /\ call.platform = ANDROID
    /\ call.badge = Some(0)
    /\ server.status = 201
    /\ result.kind = "return"
    /\ result.value = TRUE
    /\ Len(sent) = 1

\* C8: get_device_token_info returns None on a 404, the parsed JSON record on
\* a 200, and raises AirshipFailure(status, body) on any other status but 401.
C8_DeviceTokenInfoStatus ==
    (call.operation = "get_device_token_info" /\ server.status # 401) =>
        /\ server.status = 404 =>
            (result.kind = "return" /\ result.value = None)
        /\ server.status = 200 =>
            (result.kind = "return" /\ result.value = json_loads(server.body))
        /\ server.status \notin {200, 404} =>
            /\ Raised(result, "AirshipFailure")
            /\ result.args = <<server.status, server.body>>

\* C9: every call of register, deregister, get_device_token_info, push,
\* push_batch, broadcast or feedback with a recognized platform has issued
\* exactly one HTTP request when it returns or raises.
C9_ExactlyOneRequest ==
    (ValidCall /\ call.operation # "get_device_tokens") => Len(sent) = 1

\* The payload a push call sent: the JSON text of the request body, parsed
SentPayload == json_loads(sent[1].body[2])

\* C10: for a recognized platform the payload holds that platform's container
\* key and not the other's; every supplied alert, sound (iOS), badge (iOS, any
\* integer, 0 included) and extra is nested in the container; device
\* identifiers, aliases and tags are the only other top-level keys.
C10_PayloadShape ==
    (call.operation = "push" /\ call.platform \in Recognized /\ Len(sent) = 1) =>
        LET p == SentPayload
            c == IF call.platform = IOS THEN "aps" ELSE "android"
            o == IF call.platform = IOS THEN "android" ELSE "aps"
            ids == IF call.platform = IOS THEN "device_tokens" ELSE "apids"
        IN  /\ c \in DOMAIN p
            /\ o \notin DOMAIN p
            /\ DOMAIN p \subseteq {c, ids, "aliases", "tags"}
            /\ TruthyStr(call.alert) =>
                ("alert" \in DOMAIN p[c] /\ p[c]["alert"] = call.alert[1])
            /\ (TruthyStr(call.sound) /\ call.platform = IOS) =>
                ("sound" \in DOMAIN p[c] /\ p[c]["sound"] = call.sound[1])
            /\ (call.badge # None /\ call.platform = IOS) =>
                ("badge" \in DOMAIN p[c] /\ p[c]["badge"] = call.badge[1])
            /\ TruthySeq(call.extra) =>
                ("extra" \in DOMAIN p[c] /\ p[c]["extra"] = call.extra[1])

----------------------------------------------------------------------------
(* Properties of the device list, under SpecList *)

RECURSIVE IdsFrom(_)
IdsFrom(i) == IF i > Len(pages) THEN <<>> ELSE PageIds(i) \o IdsFrom(i + 1)

\* The identifiers of all pages, in page order
AllIds == IdsFrom(1)

IsPrefix(s, t) == Len(s) <= Len(t) /\ SubSeq(t, 1, Len(s)) = s

StopIteration == last.operation = "next" /\ Raised(last.result, "StopIteration")

\* C3: on a constructed list whose every page load is answered with status
\* 200, the identifiers next() yields are the concatenation of all pages'
\* identifiers in page order, and nothing is raised but the end of the
\* sequence, after the last page's identifiers have been yielded.
C3_YieldsAllPagesInOrder ==
    (self_page # None /\ loads \subseteq {200}) =>
        /\ IsPrefix(yielded, AllIds)
        /\ last.result.kind = "raise" => (StopIteration /\ yielded = AllIds)

\* C4: once next() has signalled the end of the sequence, every later next()
\* signals it too, yields nothing and loads no page.
C4_StaysExhausted ==
    [][StopIteration =>
        (StopIteration' /\ yielded' = yielded /\ last'.sent = 0)]_vars

\* C5: len() of a constructed list is the count field of the page the server
\* last served it, whatever has been yielded or remains buffered.
C5_LenIsLastPageCount ==
    self_page # None =>
        /\ served >= 1
        /\ __len__(self_platform, self_page[1]) = Return(pages[served].count)

C5_Witness ==
    /\ self_page # None
    /\ served = 2
    /\ pages[1].count # pages[2].count
    /\ Len(yielded) >= 2
    /\ has_next(self_token_iter)
    /\ __len__(self_platform, self_page[1]) = Return(pages[2].count)

\* C6: a page load, at construction or inside next(), that the server answers
\* with a status other than 200 and 401 raises AirshipFailure(status, body).
C6_LoadFailureRaises ==
    (last.operation # "none" /\ last.attempted /\ last.status \notin {200, 401}) =>
        /\ Raised(last.result, "AirshipFailure")
        /\ last.result.args = <<last.status, ErrorBody>>

====
